---------------------------- MODULE Spec2Model ----------------------------
(***************************************************************************)
(* A model of the XBRL normalisation and annual reconciliation pipeline    *)
(* (src/xbrl_normalize.py, src/financials.py) as report.py runs it, and of  *)
(* the fetch client's get_json (src/sec_client.py).                        *)
(*                                                                         *)
(* A table (pandas DataFrame) is a record [cols, rows]: the set of column  *)
(* names and the sequence of rows in index order.  A row is a record of    *)
(* the columns the code reads; label, description, frame, accn and         *)
(* taxonomy are carried through by the code unread and are left out.       *)
(* Dates are day numbers counted from 2020-01-01 in a calendar of 365-day  *)
(* years; a missing value (None, NaN, NaT) is NA for numbers and dates and *)
(* NoStr for strings.                                                      *)
(***************************************************************************)
EXTENDS Integers, Sequences, FiniteSets, TLC

VARIABLES
    pc,            \* the step the run has reached
    companyfacts,  \* the raw company-facts input of normalize_pipeline
    cfg,           \* the configuration / extra arguments of the call
    df,            \* the fact table a function is given
    out,           \* what the function returned
    prev,          \* what the call before it returned
    raised,        \* the exception that left the call, "none" if none
    cache_file,    \* SecClient: what the cache file of the key holds
    attempt,       \* SecClient.get_json: the loop variable
    requests,      \* SecClient.get_json: HTTP requests sent by this call
    resp           \* SecClient.get_json: how the latest request ended

vars == <<pc, companyfacts, cfg, df, out, prev, raised, cache_file, attempt, requests, resp>>

\* the state of the fetch client
client == <<cache_file, attempt, requests, resp>>

\* no get_json call is running
ClientIdle == cache_file = "absent" /\ attempt = 0 /\ requests = 0 /\ resp = "none"

-----------------------------------------------------------------------------
(* Missing values and dates *)

NA == -1000000
NoStr == "NA"

IsNA(x) == x = NA

\* a raw JSON value that is no number and no date (text that does not parse)
Unparsed == -2000000

\* pd.to_numeric / pd.to_datetime with errors="coerce"
Coerce(x) == IF x = Unparsed THEN NA ELSE x

\* Timestamp.year of a day number
Year(d) == 2020 + (d \div 365)

\* (end - start).dt.days, NaN when either side is NaT
DurDays(r) == IF IsNA(r.start) \/ IsNA(r.end) THEN NA ELSE r.end - r.start

\* str.upper() on the fiscal period tags that occur
Upper(s) ==
    CASE s = "fy" -> "FY"
      [] s = "Fy" -> "FY"
      [] s = "q2" -> "Q2"
      [] s = NoStr -> "NONE"
      [] OTHER -> s

\* position of a string among the strings that occur, in Python's string order
StrOrd(s) ==
    CASE s = "10-K" -> 1
      [] s = "10-Q" -> 2
      [] s = "8-K" -> 3
      [] s = "CostOfRevenue" -> 4
      [] s = "EUR" -> 5
      [] s = "FY" -> 6
      [] s = "Fy" -> 7
      [] s = "NetCashProvidedByUsedInOperatingActivities" -> 8
      [] s = "PaymentsToAcquirePropertyPlantAndEquipment" -> 9
      [] s = "Q2" -> 10
      [] s = "Revenues" -> 11
      [] s = "SalesRevenueNet" -> 12
      [] s = "USD" -> 13
      [] s = "fy" -> 14
      [] s = "pure" -> 15
      [] s = "q2" -> 16
      [] s = "shares" -> 17
      [] OTHER -> 0

-----------------------------------------------------------------------------
(* Sequences as pandas uses them *)

\* lexicographic order on integer tuples of one length
LexLess(a, b) ==
    \E i \in 1..Len(a) :
        /\ a[i] < b[i]
        /\ \A j \in 1..(i - 1) : a[j] = b[j]

\* DataFrame.sort_values: a stable sort of rows, key[i] the tuple of the
\* sort columns of rows[i]
SortRows(rows, key) ==
    LET n == Len(rows)
        before(j, i) == LexLess(key[j], key[i]) \/ (key[j] = key[i] /\ j < i)
        pos(i) == 1 + Cardinality({j \in 1..n : before(j, i)})
    IN  [p \in 1..n |-> rows[CHOOSE i \in 1..n : pos(i) = p]]

\* one sort column, ascending, NaN last (na_position="last")
Asc(x) == IF IsNA(x) THEN <<1, 0>> ELSE <<0, x>>
\* one sort column, descending, NaN still last
Desc(x) == IF IsNA(x) THEN <<1, 0>> ELSE <<0, 0 - x>>

\* the rows at the positions idx, in index order (boolean-mask selection)
RowsAt(rows, idx) ==
    [p \in 1..Cardinality(idx) |->
        rows[CHOOSE i \in idx : Cardinality({j \in idx : j <= i}) = p]]

\* drop_duplicates(subset, keep="first"), key[i] the subset columns of rows[i]
KeepFirst(rows, key) ==
    RowsAt(rows, {i \in 1..Len(rows) : \A j \in 1..(i - 1) : key[j] # key[i]})

\* keep="last" that removes only the first row of each duplicated group
KeepLastDropsOne(rows, key) ==
    RowsAt(rows, {i \in 1..Len(rows) :
                    \/ \E j \in 1..(i - 1) : key[j] = key[i]
                    \/ \A j \in (i + 1)..Len(rows) : key[j] # key[i]})

\* drop_duplicates(subset, keep="last")
KeepLast(rows, key) ==
    RowsAt(rows, {i \in 1..Len(rows) : \A j \in (i + 1)..Len(rows) : key[j] # key[i]})

\* DataFrame.head(n) in place of tail(n)
Head_n(rows, n) == IF n >= Len(rows) THEN rows ELSE SubSeq(rows, 1, n)

\* DataFrame.tail(n) for n >= 0
Tail_n(rows, n) ==
    IF n >= Len(rows) THEN rows ELSE SubSeq(rows, Len(rows) - n + 1, Len(rows))

Range(s) == {s[i] : i \in 1..Len(s)}

\* all sequences over S of length at most n
SeqUpTo(S, n) == UNION {[1..k -> S] : k \in 0..n}

MaxOf(S) == CHOOSE x \in S : \A y \in S : y <= x

-----------------------------------------------------------------------------
(* Tables *)

\* the columns of a non-empty normalised table (xbrl_normalize.py 67-98),
\* less the ones no code reads
AllColumns ==
    {"concept", "unit", "value", "start", "end", "fy", "fp", "form", "filed",
     "qtrs", "has_dimensions", "period_type"}

\* pd.DataFrame(): no columns, no rows
EmptyDF == [cols |-> {}, rows |-> <<>>]

\* d[c] = <d[c] parsed> if c in d.columns else NaT: the column exists
\* afterwards, all missing when it did not exist before
WithCol(d, c) ==
    [cols |-> d.cols \cup {c},
     rows |-> [i \in DOMAIN d.rows |->
                 [d.rows[i] EXCEPT ![c] = IF c \in d.cols THEN Coerce(@) ELSE NA]]]

\* df[mask]: the rows that are in keep, in order
Filter(d, keep) ==
    [cols |-> d.cols, rows |-> SelectSeq(d.rows, LAMBDA r : r \in keep)]

Rows(d) == Range(d.rows)

-----------------------------------------------------------------------------
(* xbrl_normalize.py: the fact normaliser and the unit/duplicate resolver *)

\* period_type as normalize_companyfacts_to_df derives it
PeriodType(start) == IF IsNA(start) THEN "instant" ELSE "duration"

\* NormalizeConfig(): keep_forms None is NoForms
NoForms == {"*"}

\* the raw records under facts[taxonomy], flattened in iteration order;
\* none when the "facts" key or the taxonomy's entry is missing
TaxonomyRecords(cf) == IF cf.has_facts /\ cf.has_taxonomy THEN cf.records ELSE <<>>

\* the form allow-list alone, the dimension filter left out
KeptWhateverDims(item, ncfg) == ncfg.keep_forms = NoForms \/ item.form \in ncfg.keep_forms

\* the raw record survives the form allow-list and the dimension filter
Kept(item, ncfg) ==
    /\ ncfg.keep_forms = NoForms \/ item.form \in ncfg.keep_forms
    /\ ~item.dims \/ ncfg.keep_dimensions

\* the row appended for a raw record, before the columns are parsed
RawRow(item) ==
    [concept |-> item.concept, unit |-> item.unit, value |-> item.val,
     start |-> item.start, end |-> item.end, fy |-> item.fy, fp |-> item.fp,
     form |-> item.form, filed |-> item.filed, qtrs |-> item.qtrs,
     has_dimensions |-> item.dims, period_type |-> NoStr]

\* filed, start, end and value parsed, period_type derived from start
ParsedRow(r) ==
    [r EXCEPT !.filed = Coerce(@), !.start = Coerce(@), !.end = Coerce(@),
              !.value = Coerce(@), !.period_type = PeriodType(Coerce(r.start))]

\* df = pd.DataFrame(rows) and the parsing after it: no columns when no
\* row was appended
NormalizedTable(kept) ==
    IF kept = <<>> THEN EmptyDF
    ELSE [cols |-> AllColumns,
          rows |-> [i \in DOMAIN kept |-> ParsedRow(RawRow(kept[i]))]]

normalize_companyfacts_to_df(cf, ncfg) ==
    NormalizedTable(SelectSeq(TaxonomyRecords(cf), LAMBDA item : Kept(item, ncfg)))

NoRank == 10000

\* preferred_units.index(u) if u in preferred_units else 10_000
UnitRank(u, preferred_units) ==
    IF u \in Range(preferred_units)
    THEN (CHOOSE i \in DOMAIN preferred_units :
             /\ preferred_units[i] = u
             /\ \A j \in 1..(i - 1) : preferred_units[j] # u) - 1
    ELSE NoRank

\* transform("max") in place of transform("min")
BestRankMax(d, r, preferred_units) ==
    CHOOSE m \in {UnitRank(x.unit, preferred_units) : x \in {y \in Rows(d) : y.concept = r.concept}} :
        \A x \in Rows(d) : x.concept = r.concept => m >= UnitRank(x.unit, preferred_units)

\* groupby("concept")["unit_rank"].transform("min") at row r
BestRank(d, r, preferred_units) ==
    CHOOSE m \in {UnitRank(x.unit, preferred_units) : x \in {y \in Rows(d) : y.concept = r.concept}} :
        \A x \in Rows(d) : x.concept = r.concept => m <= UnitRank(x.unit, preferred_units)

\* the rows of d2 (the rows with a preferred unit) whose unit has their
\* concept's best rank; d2 itself, with its unit_rank column, when it is empty
KeepBestRank(d2, preferred_units) ==
    IF d2.rows = <<>> THEN [cols |-> d2.cols \cup {"unit_rank"}, rows |-> <<>>]
    ELSE Filter(d2, {r \in Rows(d2) :
                       UnitRank(r.unit, preferred_units) = BestRank(d2, r, preferred_units)})

choose_preferred_unit(d, preferred_units) ==
    IF d.rows = <<>> THEN d
    ELSE KeepBestRank(Filter(d, {r \in Rows(d) : UnitRank(r.unit, preferred_units) < NoRank}),
                      preferred_units)

\* a string sort column, ascending, None last
AscStr(x) == IF x = NoStr THEN <<1, 0>> ELSE <<0, StrOrd(x)>>

\* the sort columns concept, unit, start, end, fy, fp, form, filed
DedupeSortKey(r) ==
    AscStr(r.concept) \o AscStr(r.unit) \o Asc(r.start) \o Asc(r.end) \o Asc(r.fy)
        \o AscStr(r.fp) \o AscStr(r.form) \o Asc(r.filed)

\* key_cols = concept, unit, start, end, fy, fp, form
DedupeKey(r) == <<r.concept, r.unit, r.start, r.end, r.fy, r.fp, r.form>>

\* drop_duplicates(subset=key_cols, keep="last") on the sorted rows
DropDuplicates(sorted) == KeepLast(sorted, [i \in DOMAIN sorted |-> DedupeKey(sorted[i])])

dedupe_keep_latest_filed(d) ==
    IF d.rows = <<>> THEN d
    ELSE [cols |-> d.cols,
          rows |-> DropDuplicates(
                       SortRows(d.rows, [i \in DOMAIN d.rows |-> DedupeSortKey(d.rows[i])]))]

normalize_pipeline(cf, ncfg) ==
    dedupe_keep_latest_filed(
        choose_preferred_unit(normalize_companyfacts_to_df(cf, ncfg), ncfg.preferred_units))

-----------------------------------------------------------------------------
(* financials.py: the annual reconciliation engine *)

MinYearDays == 330
MaxYearDays == 400

filter_forms(d, forms) == Filter(d, {r \in Rows(d) : r.form \in forms})

filter_unit(d, unit) == Filter(d, {r \in Rows(d) : r.unit = unit})

filter_period_type(d, period_type) ==
    IF period_type = NoStr THEN d
    ELSE Filter(d, {r \in Rows(d) : r.period_type = period_type})

\* rule 1: the rows with qtrs == 4, used when the column exists and any row has it
Q4Rows(d) == Filter(d, {r \in Rows(d) : r.qtrs = 4})

\* rule 2: the rows whose fp is FY in any case
FyRows(d) == Filter(d, {r \in Rows(d) : Upper(r.fp) = "FY"})

\* rule 3 with the bounds excluded
NearYearStrict(d) ==
    IF \E i \in DOMAIN d.rows : ~IsNA(d.rows[i].start)
    THEN Filter(d, {r \in Rows(d) : /\ ~IsNA(DurDays(r))
                                   /\ DurDays(r) > MinYearDays
                                   /\ DurDays(r) < MaxYearDays})
    ELSE d

\* rule 3: the duration of about one year, applied when any start is present
NearYear(d) ==
    IF \E i \in DOMAIN d.rows : ~IsNA(d.rows[i].start)
    THEN Filter(d, {r \in Rows(d) : /\ ~IsNA(DurDays(r))
                                   /\ DurDays(r) >= MinYearDays
                                   /\ DurDays(r) <= MaxYearDays})
    ELSE d

\* rule 2 whenever any row has fp FY
RuleTwo(o) == IF "fp" \in o.cols /\ FyRows(o).rows # <<>> THEN FyRows(o) ELSE o

\* rule 2 applied after rule 1 as well (used_filter never set)
QuarterThenFiscalYear(o) ==
    IF "qtrs" \in o.cols /\ Q4Rows(o).rows # <<>> THEN RuleTwo(Q4Rows(o)) ELSE RuleTwo(o)

\* rules 1 and 2: the qtrs == 4 rows when there are any (used_filter), and
\* only otherwise the fp == FY rows when there are any
QuarterOrFiscalYear(o) ==
    IF "qtrs" \in o.cols /\ Q4Rows(o).rows # <<>> THEN Q4Rows(o) ELSE RuleTwo(o)

annualize_duration_series(d) ==
    IF d.rows = <<>> THEN d
    ELSE NearYear(QuarterOrFiscalYear(WithCol(WithCol(d, "start"), "end")))

\* dropna(subset=["fy", "end", "value"])
DropMissing(d) ==
    Filter(d, {r \in Rows(d) : ~IsNA(r.fy) /\ ~IsNA(r.end) /\ ~IsNA(r.value)})

\* the sort with filed ascending instead of descending
SelectSortKeyFiledAsc(d, r) ==
    LET year_gap == IF Year(r.end) >= r.fy THEN Year(r.end) - r.fy ELSE r.fy - Year(r.end)
        is_q4 == "qtrs" \in d.cols /\ r.qtrs = 4
        dur_days == IF ~IsNA(r.start) THEN r.end - r.start ELSE 0 - 1
    IN  <<r.fy, year_gap, IF is_q4 THEN 0 ELSE 1, 0 - dur_days>>
            \o Asc(r.filed) \o Desc(r.end)

\* the sort of select_best_row_per_fy: fy_int, year_gap ascending; is_q4,
\* dur_days, filed, end descending
SelectSortKey(d, r) ==
    LET year_gap == IF Year(r.end) >= r.fy THEN Year(r.end) - r.fy ELSE r.fy - Year(r.end)
        is_q4 == "qtrs" \in d.cols /\ r.qtrs = 4
        dur_days == IF ~IsNA(r.start) THEN r.end - r.start ELSE 0 - 1
    IN  <<r.fy, year_gap, IF is_q4 THEN 0 ELSE 1, 0 - dur_days>>
            \o Desc(r.filed) \o Desc(r.end)

\* drop_duplicates(subset=["fy_int"], keep="first") on the sorted rows
FirstPerFy(sorted) == KeepFirst(sorted, [i \in DOMAIN sorted |-> sorted[i].fy])

\* the sort and the first row per fiscal year, on the rows with fy, end and value
SortAndKeepFirst(d) ==
    [cols |-> d.cols,
     rows |-> FirstPerFy(SortRows(d.rows, [i \in DOMAIN d.rows |-> SelectSortKey(d, d.rows[i])]))]

select_best_row_per_fy(df0) ==
    IF df0.rows = <<>> THEN df0
    ELSE SortAndKeepFirst(
             DropMissing(WithCol(WithCol(WithCol(WithCol(df0, "end"), "start"), "filed"), "fy")))

prepare_base(df0, spec) ==
    filter_period_type(
        filter_unit(IF spec.forms # {} THEN filter_forms(df0, spec.forms) ELSE df0, spec.unit),
        spec.period_type)

\* d: the rows with fy, end and value, returned as they are when there are
\* none, else annualised for a duration metric and reduced to one row per year
SeriesOfParsed(d, spec) ==
    IF d.rows = <<>> THEN d
    ELSE select_best_row_per_fy(
             IF spec.period_type = "duration" THEN annualize_duration_series(d) ELSE d)

\* d: the concept's rows with value and end, returned as they are when there
\* are none, else with fy and end parsed and the rows missing any dropped
SeriesOfPresent(d, spec) ==
    IF d.rows = <<>> THEN d
    ELSE SeriesOfParsed(DropMissing(WithCol(WithCol(d, "fy"), "end")), spec)

\* dropna(subset=["value", "end"])
DropNoValueOrEnd(d) == Filter(d, {r \in Rows(d) : ~IsNA(r.value) /\ ~IsNA(r.end)})

extract_series_for_concept(base, spec, concept) ==
    SeriesOfPresent(DropNoValueOrEnd(Filter(base, {r \in Rows(base) : r.concept = concept})),
                    spec)

\* (max_fy, row_count, max_end) of a non-empty series
Score(d) ==
    <<MaxOf({d.rows[i].fy : i \in DOMAIN d.rows}),
      Cardinality({d.rows[i].fy : i \in DOMAIN d.rows}),
      MaxOf({d.rows[i].end : i \in DOMAIN d.rows})>>

\* score >= best_score
ScoreBeatsOrTies(score, best_score) == ~LexLess(score, best_score)

\* score > best_score
ScoreBeats(score, best_score) == LexLess(best_score, score)

\* the loop's state before its first candidate
NoBest == [concept |-> NoStr, d |-> EmptyDF, score |-> <<>>]

\* one iteration of the loop over spec.candidates that keeps the first
\* candidate with any row, whatever its score
FirstStep(best, d, concept) ==
    IF d.rows = <<>> THEN best
    ELSE IF best.score = <<>>
    THEN [concept |-> concept, d |-> d, score |-> Score(d)]
    ELSE best

\* one iteration of the loop over spec.candidates
BestStep(best, d, concept) ==
    IF d.rows = <<>> THEN best
    ELSE IF best.score = <<>> \/ ScoreBeats(Score(d), best.score)
    THEN [concept |-> concept, d |-> d, score |-> Score(d)]
    ELSE best

RECURSIVE BestAfter(_, _, _)
\* best_concept, best_df, best_score after the first k candidates
BestAfter(base, spec, k) ==
    IF k = 0 THEN NoBest
    ELSE BestStep(BestAfter(base, spec, k - 1),
                  extract_series_for_concept(base, spec, spec.candidates[k]),
                  spec.candidates[k])

\* return best_concept, best_df
BestPair(best) == [concept |-> best.concept, d |-> best.d]

choose_best_concept(base, spec) == BestPair(BestAfter(base, spec, Len(spec.candidates)))

\* the tidy rows (fy, fiscal_year_end, value, concept_used, name) of the
\* rows d of the chosen series
TidyRows(d, concept, name) ==
    [i \in DOMAIN d |->
        [fy |-> d[i].fy, fiscal_year_end |-> d[i].end, value |-> d[i].value,
         concept_used |-> concept, name |-> name]]

\* sort_values("fy").tail(last_n_years)
LastYears(rows, last_n_years) ==
    Tail_n(SortRows(rows, [i \in DOMAIN rows |-> <<rows[i].fy>>]), last_n_years)

\* the tidy series of the chosen concept, empty when none was chosen
TidySeries(chosen, spec, last_n_years) ==
    IF chosen.concept = NoStr \/ chosen.d.rows = <<>> THEN <<>>
    ELSE TidyRows(LastYears(chosen.d.rows, last_n_years), chosen.concept, spec.name)

extract_annual_series(df0, spec, last_n_years) ==
    TidySeries(choose_best_concept(prepare_base(df0, spec), spec), spec, last_n_years)


\* default_mvp_specs()
default_mvp_specs ==
    <<[name |-> "revenue",
       candidates |-> <<"RevenueFromContractWithCustomerExcludingAssessedTax",
                        "Revenues", "SalesRevenueNet">>,
       unit |-> "USD", period_type |-> "duration", forms |-> {"10-K"}],
      [name |-> "gross_profit", candidates |-> <<"GrossProfit">>,
       unit |-> "USD", period_type |-> "duration", forms |-> {"10-K"}],
      [name |-> "operating_income", candidates |-> <<"OperatingIncomeLoss">>,
       unit |-> "USD", period_type |-> "duration", forms |-> {"10-K"}],
      [name |-> "net_income", candidates |-> <<"NetIncomeLoss">>,
       unit |-> "USD", period_type |-> "duration", forms |-> {"10-K"}],
      [name |-> "cfo",
       candidates |-> <<"NetCashProvidedByUsedInOperatingActivities",
                        "NetCashProvidedByUsedInOperatingActivitiesContinuingOperations">>,
       unit |-> "USD", period_type |-> "duration", forms |-> {"10-K"}],
      [name |-> "capex",
       candidates |-> <<"PaymentsToAcquirePropertyPlantAndEquipment",
                        "PaymentsToAcquireProductiveAssets">>,
       unit |-> "USD", period_type |-> "duration", forms |-> {"10-K"}],
      [name |-> "cash", candidates |-> <<"CashAndCashEquivalentsAtCarryingValue">>,
       unit |-> "USD", period_type |-> "instant", forms |-> {"10-K"}],
      [name |-> "equity", candidates |-> <<"StockholdersEquity">>,
       unit |-> "USD", period_type |-> "instant", forms |-> {"10-K"}]>>

\* required_cols without "form"
RequiredColsNoForm == {"concept", "unit", "value", "end", "period_type"}

\* required_cols of build_annual_financials_table
RequiredCols == {"concept", "unit", "value", "end", "form", "period_type"}

\* the loop's state before its first iteration: no series, an empty
\* concept_map, no table returned
BuildStart == [k |-> 0, concept_map |-> <<>>, all_series |-> <<>>, long |-> <<>>,
               returned |-> FALSE, table |-> EmptyDF, has_concept_map |-> FALSE]

\* concept_map[name] = concept
MapPut(m, name, concept) ==
    [x \in DOMAIN m \cup {name} |-> IF x = name THEN concept ELSE m[x]]

\* the loop's state after the series s of one metric: the concept map gets
\* the concept used, or "" for an empty series, which is not appended
AddSeries(b, spec, s) ==
    IF s = <<>>
    THEN [b EXCEPT !.k = @ + 1, !.concept_map = MapPut(@, spec.name, "")]
    ELSE [b EXCEPT !.k = @ + 1,
                   !.concept_map = MapPut(@, spec.name, s[Len(s)].concept_used),
                   !.all_series = Append(@, s),
                   !.long = @ \o s]

\* one iteration of the loop over specs
ReconcileStep(b, df0, spec, last_n_years) ==
    AddSeries(b, spec, extract_annual_series(df0, spec, last_n_years))

\* the columns extract_annual_series indexes without testing for them
ColumnsRead(spec) ==
    {"unit", "concept", "value", "end"}
        \cup (IF spec.forms # {} THEN {"form"} ELSE {})
        \cup (IF spec.period_type # NoStr THEN {"period_type"} ELSE {})

\* a float: a quotient num/den (den = 0 is an infinity), or NaN
NaN == [na |-> TRUE, num |-> 0, den |-> 1]

\* a / b on floats held as integers: NaN when either is missing or both are 0
Quot(a, b) ==
    IF IsNA(a) \/ IsNA(b) \/ (a = 0 /\ b = 0) THEN NaN
    ELSE [na |-> FALSE, num |-> a, den |-> b]

\* a - b with a missing side counted as 0 (fillna(0) before the subtraction)
MinusFillZero(a, b) == (IF IsNA(a) THEN 0 ELSE a) - (IF IsNA(b) THEN 0 ELSE b)

\* a - b, NaN when either is missing
Minus(a, b) == IF IsNA(a) \/ IsNA(b) THEN NA ELSE a - b

\* the ascending sequence of the members of a set of integers
Ascending(S) ==
    [p \in 1..Cardinality(S) |-> CHOOSE x \in S : Cardinality({y \in S : y <= x}) = p]

\* a pivot that fills a year a metric lacks with the metric's value of the
\* latest earlier year (ffill after the pivot)
CellCarryForward(long, fy, name) ==
    LET hits == {i \in DOMAIN long : long[i].fy <= fy /\ long[i].name = name}
    IN  IF hits = {} THEN NA
        ELSE long[CHOOSE i \in hits : \A j \in hits : long[j].fy <= long[i].fy].value

\* pivot_table(index="fy", columns="name", values="value", aggfunc="last"):
\* the last value of the rows of long with this fy and name, NaN if none
Cell(long, fy, name) ==
    LET hits == {i \in DOMAIN long : long[i].fy = fy /\ long[i].name = name}
    IN  IF hits = {} THEN NA ELSE long[MaxOf(hits)].value

\* the wide table of a non-empty long table, with its derived columns
WideTable(long) ==
    LET names == {long[i].name : i \in DOMAIN long}
        fys == Ascending({long[i].fy : i \in DOMAIN long})
        val(p, name) == IF name \in names THEN Cell(long, fys[p], name) ELSE NA
        fcf(p) == IF "cfo" \in names /\ "capex" \in names
                  THEN Minus(val(p, "cfo"), val(p, "capex")) ELSE NA
        ratio(p, name) == IF name \in names /\ "revenue" \in names
                          THEN Quot(val(p, name), val(p, "revenue")) ELSE NaN
    IN  [cols |-> {"fy", "fiscal_year_end", "fcf", "revenue_yoy", "gross_margin",
                   "operating_margin", "net_margin", "fcf_margin"} \cup names,
         rows |-> [p \in DOMAIN fys |->
            [fy |-> fys[p],
             fiscal_year_end |->
                 MaxOf({long[i].fiscal_year_end : i \in {j \in DOMAIN long : long[j].fy = fys[p]}}),
             value |-> [name \in names |-> Cell(long, fys[p], name)],
             fcf |-> fcf(p),
             revenue_yoy |->
                 IF "revenue" \in names /\ p > 1
                 THEN Quot(Minus(val(p, "revenue"), val(p - 1, "revenue")), val(p - 1, "revenue"))
                 ELSE NaN,
             gross_margin |-> ratio(p, "gross_profit"),
             operating_margin |-> ratio(p, "operating_income"),
             net_margin |-> ratio(p, "net_income"),
             fcf_margin |-> IF "revenue" \in names
                            THEN Quot(fcf(p), val(p, "revenue")) ELSE NaN]]]

\* after the loop: pd.DataFrame() with no attrs when no metric has a series,
\* else the wide table with attrs["concept_map"]
BuildReturn(b) ==
    IF b.all_series = <<>>
    THEN [b EXCEPT !.returned = TRUE, !.table = EmptyDF, !.has_concept_map = FALSE]
    ELSE [b EXCEPT !.returned = TRUE, !.table = WideTable(b.long), !.has_concept_map = TRUE]

-----------------------------------------------------------------------------
(* Inputs *)

\* a full-year 10-K duration fact of FY2022; the input sets vary its fields
BaseFact ==
    [concept |-> "Revenues", unit |-> "USD", value |-> 10, start |-> 730,
     end |-> 1094, fy |-> 2022, fp |-> "FY", form |-> "10-K", filed |-> 1150,
     qtrs |-> 4, has_dimensions |-> FALSE, period_type |-> "duration"]

NoCfg == [name |-> NoStr]

\* the table of a sequence of rows that has every column
FullTable(rows) == [cols |-> AllColumns, rows |-> rows]

-----------------------------------------------------------------------------
(* select_best_row_per_fy on its own *)

MaxSelectRows == 2

\* end 2022-12-31 or 2023-01-30; start giving a span of about a year or half
\* a year, or none; two filing dates, or none
SelectFacts ==
    {[BaseFact EXCEPT !.fy = y, !.end = e, !.start = s, !.filed = f, !.qtrs = q,
                      !.period_type = PeriodType(s)] :
        y \in {2022, 2023}, e \in {1094, 1124}, s \in {NA, 729, 913},
        f \in {NA, 1150, 1200}, q \in {2, 4}}
    \cup {[BaseFact EXCEPT !.fy = NA, !.filed = 1300],
          [BaseFact EXCEPT !.end = NA, !.filed = 1300],
          [BaseFact EXCEPT !.value = NA, !.filed = 1300]}

InitSelect ==
    /\ pc = "input"
    /\ companyfacts = <<>>
    /\ cfg = NoCfg
    /\ df \in {FullTable(rows) : rows \in SeqUpTo(SelectFacts, MaxSelectRows)}
    /\ out = EmptyDF
    /\ prev = EmptyDF
    /\ raised = "none"
    /\ ClientIdle

SelectBest ==
    /\ pc = "input"
    /\ pc' = "selected"
    /\ out' = select_best_row_per_fy(df)
    /\ UNCHANGED <<companyfacts, cfg, df, prev, raised>>
    /\ UNCHANGED client

NextSelect == SelectBest

SpecSelect == InitSelect /\ [][NextSelect]_vars

Complete(r) == ~IsNA(r.fy) /\ ~IsNA(r.end) /\ ~IsNA(r.value)

YearGap(r) == IF Year(r.end) >= r.fy THEN Year(r.end) - r.fy ELSE r.fy - Year(r.end)

Span(r) == IF IsNA(r.start) THEN -1 ELSE r.end - r.start

\* a filed strictly later than b; a fact without a filing date is later than none
FiledLater(a, b) == ~IsNA(a.filed) /\ (IsNA(b.filed) \/ a.filed > b.filed)

\* a ranks strictly above b in the five-criterion order
Better(a, b) ==
    \/ YearGap(a) < YearGap(b)
    \/ /\ YearGap(a) = YearGap(b)
       /\ \/ (a.qtrs = 4 /\ b.qtrs # 4)
          \/ /\ (a.qtrs = 4) = (b.qtrs = 4)
             /\ \/ Span(a) > Span(b)
                \/ /\ Span(a) = Span(b)
                   /\ \/ FiledLater(a, b)
                      \/ (a.filed = b.filed /\ a.end > b.end)

\* C1: select_best_row_per_fy keeps, for every fiscal year that has a fact
\* with fiscal year, end date and value present, exactly one fact of that
\* year, and no complete fact of the year ranks above it in the order
\* (year gap, qtrs == 4, span with -1 for no start, filing date, end date);
\* a fact missing fiscal year, end date or value is never kept.
C1_BestRowPerFy ==
    pc = "selected" =>
        /\ \A i \in DOMAIN out.rows :
              Complete(out.rows[i]) /\ out.rows[i] \in Range(df.rows)
        /\ \A r \in Range(df.rows) :
              Complete(r) =>
                 /\ Cardinality({i \in DOMAIN out.rows : out.rows[i].fy = r.fy}) = 1
                 /\ \A i \in DOMAIN out.rows :
                       out.rows[i].fy = r.fy => ~Better(r, out.rows[i])

\* two complete facts of one fiscal year that only the filing date tells
\* apart, beside which one was kept
C1_Witness ==
    /\ pc = "selected"
    /\ Len(df.rows) = 2
    /\ Complete(df.rows[1]) /\ Complete(df.rows[2])
    /\ df.rows[1].fy = df.rows[2].fy
    /\ YearGap(df.rows[1]) = YearGap(df.rows[2])
    /\ df.rows[1].qtrs = df.rows[2].qtrs
    /\ Span(df.rows[1]) = Span(df.rows[2])
    /\ ~IsNA(df.rows[1].filed)
    /\ FiledLater(df.rows[2], df.rows[1])
    /\ out.rows = <<df.rows[2]>>

-----------------------------------------------------------------------------
(* annualize_duration_series on its own *)

MaxAnnualRows == 2

\* facts ending 2022-12-31 that span 329, 330, 365, 400, 401 or 181 days or
\* have no start, tagged FY, fy or Q2, with qtrs 4 or 2; and two facts
\* with no qtrs
AnnualFacts ==
    {[BaseFact EXCEPT !.start = s, !.fp = t, !.qtrs = q,
                      !.period_type = PeriodType(s)] :
        s \in {NA, 765, 764, 729, 694, 693, 913}, t \in {"FY", "fy", "Q2"},
        q \in {2, 4}}
    \cup {[BaseFact EXCEPT !.qtrs = NA, !.fp = NoStr, !.start = 729],
          [BaseFact EXCEPT !.qtrs = NA, !.fp = "FY", !.start = 913]}

InitAnnualize ==
    /\ pc = "input"
    /\ companyfacts = <<>>
    /\ cfg = NoCfg
    /\ df \in {FullTable(rows) : rows \in SeqUpTo(AnnualFacts, MaxAnnualRows)}
    /\ out = EmptyDF
    /\ prev = EmptyDF
    /\ raised = "none"
    /\ ClientIdle

Annualize ==
    /\ pc = "input"
    /\ pc' = "annualized"
    /\ out' = annualize_duration_series(df)
    /\ UNCHANGED <<companyfacts, cfg, df, prev, raised>>
    /\ UNCHANGED client

NextAnnualize == Annualize

SpecAnnualize == InitAnnualize /\ [][NextAnnualize]_vars

AnyQ4 == \E r \in Range(df.rows) : r.qtrs = 4

IsFY(r) == r.fp \in {"FY", "fy", "Fy", "fY"}

AnyFY == \E r \in Range(df.rows) : IsFY(r)

\* the fact spans about a year: it has a start and 330 <= end - start <= 400
SpansAYear(r) == ~IsNA(r.start) /\ 330 <= r.end - r.start /\ r.end - r.start <= 400

\* C3: annualize_duration_series applies rule 1 and rule 2 exclusively and
\* in order.  If any input fact has qtrs == 4, every output fact has
\* qtrs == 4 and the fp rule removes nothing (a qtrs == 4 fact that is not
\* output does not span a year); otherwise, if any input fact is tagged FY
\* in any case, every output fact is; otherwise neither rule removes a
\* fact (a fact that is not output does not span a year).
C3_RulesExclusive ==
    pc = "annualized" =>
        /\ Range(out.rows) \subseteq Range(df.rows)
        /\ AnyQ4 =>
              /\ \A o \in Range(out.rows) : o.qtrs = 4
              /\ \A r \in Range(df.rows) :
                    (r.qtrs = 4 /\ r \notin Range(out.rows)) => ~SpansAYear(r)
        /\ (~AnyQ4 /\ AnyFY) => \A o \in Range(out.rows) : IsFY(o)
        /\ (~AnyQ4 /\ ~AnyFY) =>
              \A r \in Range(df.rows) : r \notin Range(out.rows) => ~SpansAYear(r)

\* the scenario: a qtrs=4 fact of 365 days that is not tagged FY and a
\* qtrs=2 fact of 181 days that is; only the first is output
C3_Witness ==
    /\ pc = "annualized"
    /\ Len(df.rows) = 2
    /\ df.rows[1].qtrs = 4 /\ Span(df.rows[1]) = 365 /\ df.rows[1].fp = "Q2"
    /\ df.rows[2].qtrs = 2 /\ Span(df.rows[2]) = 181 /\ df.rows[2].fp = "FY"
    /\ out.rows = <<df.rows[1]>>

\* the facts left by rule 1, by rule 2, or by neither
AfterRules ==
    SelectSeq(df.rows,
              LAMBDA r : IF AnyQ4 THEN r.qtrs = 4 ELSE IF AnyFY THEN IsFY(r) ELSE TRUE)

\* C4: whichever rule fired, if a fact it left has a start date then the
\* output is exactly the facts it left that have a start and span 330 to
\* 400 days, both bounds included; if none has a start date the facts it
\* left are output unchanged.
C4_NearYearFilter ==
    pc = "annualized" =>
        IF \E r \in Range(AfterRules) : ~IsNA(r.start)
        THEN /\ \A o \in Range(out.rows) :
                   ~IsNA(o.start) /\ 330 <= o.end - o.start /\ o.end - o.start <= 400
             /\ \A r \in Range(AfterRules) : SpansAYear(r) => r \in Range(out.rows)
        ELSE out.rows = AfterRules

\* a fact of exactly 400 days kept beside a fact of 401 days dropped
C4_Witness ==
    /\ pc = "annualized"
    /\ Len(df.rows) = 2
    /\ df.rows[1].qtrs = df.rows[2].qtrs /\ df.rows[1].fp = df.rows[2].fp
    /\ Span(df.rows[1]) = 400
    /\ Span(df.rows[2]) = 401
    /\ out.rows = <<df.rows[1]>>

-----------------------------------------------------------------------------
(* extract_annual_series: candidate concept selection *)

MaxChooseRows == 3

\* the revenue metric of default_mvp_specs with two of its candidates, in
\* either order
RevenueSpecs ==
    {[name |-> "revenue", candidates |-> c, unit |-> "USD",
      period_type |-> "duration", forms |-> {"10-K"}, last_n_years |-> n] :
        c \in {<<"Revenues", "SalesRevenueNet">>, <<"SalesRevenueNet", "Revenues">>},
        n \in {1, 5}}

\* full-year facts of either concept: of FY2020, and of FY2023 ending at the
\* year end or 30 days after it; a half-year fact of FY2023 of either
\* concept; and a 10-Q fact, which prepare_base removes
ChooseFacts ==
    {[BaseFact EXCEPT !.concept = c, !.fy = ye[1], !.end = ye[2], !.start = ye[2] - 365] :
        c \in {"Revenues", "SalesRevenueNet"},
        ye \in {<<2020, 364>>, <<2023, 1459>>, <<2023, 1489>>}}
    \cup {[BaseFact EXCEPT !.concept = c, !.fy = 2023, !.end = 1459, !.start = 1278,
                           !.qtrs = 2, !.fp = "Q2"] :
            c \in {"Revenues", "SalesRevenueNet"}}
    \cup {[BaseFact EXCEPT !.fy = 2023, !.end = 1459, !.start = 1094, !.form = "10-Q"]}

InitChoose ==
    /\ pc = "input"
    /\ companyfacts = <<>>
    /\ cfg \in RevenueSpecs
    /\ df \in {FullTable(rows) : rows \in SeqUpTo(ChooseFacts, MaxChooseRows)}
    /\ out = EmptyDF
    /\ prev = EmptyDF
    /\ raised = "none"
    /\ ClientIdle

\* extract_annual_series, with the candidate it chose kept beside its result
ExtractAnnualSeries ==
    /\ pc = "input"
    /\ pc' = "extracted"
    /\ out' = [chosen |-> choose_best_concept(prepare_base(df, cfg), cfg),
               series |-> extract_annual_series(df, cfg, cfg.last_n_years)]
    /\ UNCHANGED <<companyfacts, cfg, df, prev, raised>>
    /\ UNCHANGED client

NextChoose == ExtractAnnualSeries

SpecChoose == InitChoose /\ [][NextChoose]_vars

\* the reconciled annual series of candidate c
SeriesOf(c) == extract_series_for_concept(prepare_base(df, cfg), cfg, c).rows

MaxFy(rows) == MaxOf({rows[i].fy : i \in DOMAIN rows})
NumFy(rows) == Cardinality({rows[i].fy : i \in DOMAIN rows})
MaxEnd(rows) == MaxOf({rows[i].end : i \in DOMAIN rows})

\* series a scores strictly above series b
ScoresAbove(a, b) ==
    \/ MaxFy(a) > MaxFy(b)
    \/ MaxFy(a) = MaxFy(b) /\ NumFy(a) > NumFy(b)
    \/ MaxFy(a) = MaxFy(b) /\ NumFy(a) = NumFy(b) /\ MaxEnd(a) > MaxEnd(b)

NonEmptyCandidates == {c \in Range(cfg.candidates) : SeriesOf(c) # <<>>}

\* C2: choose_best_concept returns a candidate with a non-empty series that
\* no other candidate's series scores above, the score being (maximum
\* fiscal year, number of distinct fiscal years, maximum end date) compared
\* lexicographically, together with that candidate's series; when no
\* candidate has a row it returns no concept and an empty series.
C2_BestConcept ==
    pc = "extracted" =>
        IF NonEmptyCandidates = {}
        THEN out.chosen.concept = NoStr /\ out.chosen.d.rows = <<>>
        ELSE /\ out.chosen.concept \in NonEmptyCandidates
             /\ out.chosen.d.rows = SeriesOf(out.chosen.concept)
             /\ \A c \in NonEmptyCandidates :
                   ~ScoresAbove(SeriesOf(c), out.chosen.d.rows)

\* the first candidate is covered through FY2020 only, the second through
\* FY2023, and the second is chosen
C2_Witness ==
    /\ pc = "extracted"
    /\ NonEmptyCandidates = Range(cfg.candidates)
    /\ MaxFy(SeriesOf(cfg.candidates[1])) = 2020
    /\ MaxFy(SeriesOf(cfg.candidates[2])) = 2023
    /\ out.chosen.concept = cfg.candidates[2]

-----------------------------------------------------------------------------
(* choose_preferred_unit on its own *)

MaxUnitRows == 3

UnitFacts ==
    {[BaseFact EXCEPT !.concept = c, !.unit = u] :
        c \in {"Revenues", "SalesRevenueNet"}, u \in {"USD", "shares", "pure", "EUR"}}

\* the default preference list and two others
PreferenceLists == {<<"USD", "shares", "pure">>, <<"shares", "USD">>, <<"pure">>}

InitUnits ==
    /\ pc = "input"
    /\ companyfacts = <<>>
    /\ cfg \in {[preferred_units |-> l] : l \in PreferenceLists}
    /\ df \in {FullTable(rows) : rows \in SeqUpTo(UnitFacts, MaxUnitRows)}
    /\ out = EmptyDF
    /\ prev = EmptyDF
    /\ raised = "none"
    /\ ClientIdle

ChoosePreferredUnit ==
    /\ pc = "input"
    /\ pc' = "units"
    /\ out' = choose_preferred_unit(df, cfg.preferred_units)
    /\ UNCHANGED <<companyfacts, cfg, df, prev, raised>>
    /\ UNCHANGED client

NextUnits == ChoosePreferredUnit

SpecUnits == InitUnits /\ [][NextUnits]_vars

\* unit u stands no later than unit v in the preference list
NoLater(u, v) ==
    \E i \in DOMAIN cfg.preferred_units :
        /\ cfg.preferred_units[i] = u
        /\ \A j \in DOMAIN cfg.preferred_units : cfg.preferred_units[j] = v => i <= j

\* how many rows of the sequence are the fact r
Count(rows, r) == Cardinality({i \in DOMAIN rows : rows[i] = r})

\* C8: choose_preferred_unit outputs no fact whose unit is outside the
\* preference list; the output facts of one concept share one unit, the
\* one that stands first in the list among that concept's input units;
\* and every input fact of that unit is output.
C8_PreferredUnit ==
    pc = "units" =>
        /\ \A o \in Rows(out) : o \in Rows(df) /\ o.unit \in Range(cfg.preferred_units)
        /\ \A o1 \in Rows(out), o2 \in Rows(out) :
              o1.concept = o2.concept => o1.unit = o2.unit
        /\ \A o \in Rows(out), r \in Rows(df) :
              (r.concept = o.concept /\ r.unit \in Range(cfg.preferred_units))
                  => NoLater(o.unit, r.unit)
        /\ \A r \in Rows(df) :
              (\A x \in Rows(df) :
                  (x.concept = r.concept /\ x.unit \in Range(cfg.preferred_units))
                      => NoLater(r.unit, x.unit))
                  => (r.unit \in Range(cfg.preferred_units) => Count(out.rows, r) = Count(df.rows, r))

\* a concept with a USD fact and a shares fact, both preferred: the shares
\* fact is dropped
C8_Witness ==
    /\ pc = "units"
    /\ cfg.preferred_units = <<"USD", "shares", "pure">>
    /\ \E r \in Rows(df), x \in Rows(df) :
          /\ r.concept = x.concept /\ r.unit = "USD" /\ x.unit = "shares"
          /\ r \in Rows(out) /\ x \notin Rows(out)

-----------------------------------------------------------------------------
(* dedupe_keep_latest_filed on its own, applied once and again *)

MaxDedupeRows == 3

\* filings of one observation, and of the instant observation with the same
\* end, filed on two dates or with no filing date, with two values
DedupeFacts ==
    {[BaseFact EXCEPT !.filed = f, !.start = s, !.value = v,
                      !.period_type = PeriodType(s)] :
        f \in {NA, 1150, 1200}, s \in {NA, 730}, v \in {10, 20}}

InitDedupe ==
    /\ pc = "input"
    /\ companyfacts = <<>>
    /\ cfg = NoCfg
    /\ df \in {FullTable(rows) : rows \in SeqUpTo(DedupeFacts, MaxDedupeRows)}
    /\ out = EmptyDF
    /\ prev = EmptyDF
    /\ raised = "none"
    /\ ClientIdle

Dedupe ==
    /\ pc = "input"
    /\ pc' = "deduped"
    /\ out' = dedupe_keep_latest_filed(df)
    /\ UNCHANGED <<companyfacts, cfg, df, prev, raised>>
    /\ UNCHANGED client

DedupeAgain ==
    /\ pc = "deduped"
    /\ pc' = "deduped2"
    /\ prev' = out
    /\ out' = dedupe_keep_latest_filed(out)
    /\ UNCHANGED <<companyfacts, cfg, df, raised>>
    /\ UNCHANGED client

NextDedupe == Dedupe \/ DedupeAgain

SpecDedupe == InitDedupe /\ [][NextDedupe]_vars

\* the identity tuple (concept, unit, start, end, fy, fp, form)
SameIdentity(a, b) ==
    /\ a.concept = b.concept /\ a.unit = b.unit /\ a.start = b.start /\ a.end = b.end
    /\ a.fy = b.fy /\ a.fp = b.fp /\ a.form = b.form

\* C9 as claimed: dedupe_keep_latest_filed outputs, for each group of input
\* facts that share the identity tuple, exactly one fact of the group, and
\* no fact of the group was filed later than it.
C9_LatestFiledKept ==
    pc = "deduped" =>
        /\ \A o \in Rows(out) : o \in Rows(df)
        /\ \A r \in Rows(df) :
              /\ Cardinality({i \in DOMAIN out.rows : SameIdentity(out.rows[i], r)}) = 1
              /\ \A o \in Rows(out) : SameIdentity(o, r) => ~FiledLater(r, o)

\* C10: dedupe_keep_latest_filed applied to its own output returns the
\* same facts, each as many times.
C10_DedupeIdempotent ==
    pc = "deduped2" =>
        /\ Len(out.rows) = Len(prev.rows)
        /\ \A r \in Rows(out) \cup Rows(prev) : Count(out.rows, r) = Count(prev.rows, r)

\* three filings of one observation collapsed to one by the first call, and
\* the second call made
C10_Witness ==
    /\ pc = "deduped2"
    /\ Len(df.rows) = 3
    /\ \A r \in Rows(df) : SameIdentity(r, df.rows[1])
    /\ Len(prev.rows) = 1
    /\ Len(out.rows) = 1

-----------------------------------------------------------------------------
(* build_annual_financials_table, step by step *)

\* lines 285-293, a mandatory column is missing: ValueError
BuildRaise ==
    /\ pc = "pipeline_done"
    /\ RequiredCols \ df.cols # {}
    /\ pc' = "raised"
    /\ raised' = "ValueError"
    /\ out' = BuildStart
    /\ UNCHANGED <<companyfacts, cfg, df, prev>>
    /\ UNCHANGED client

\* lines 285-296, no mandatory column is missing
BuildBegin ==
    /\ pc = "pipeline_done"
    /\ RequiredCols \ df.cols = {}
    /\ pc' = "reconcile"
    /\ out' = BuildStart
    /\ UNCHANGED <<companyfacts, cfg, df, prev, raised>>
    /\ UNCHANGED client

\* lines 298-304, one metric; indexing a column the table lacks is a KeyError
ReconcileMetric ==
    /\ pc = "reconcile"
    /\ out.k < Len(cfg.specs)
    /\ IF ColumnsRead(cfg.specs[out.k + 1]) \subseteq df.cols
       THEN /\ out' = ReconcileStep(out, df, cfg.specs[out.k + 1], cfg.last_n_years)
            /\ UNCHANGED <<pc, raised>>
       ELSE /\ pc' = "raised"
            /\ raised' = "KeyError"
            /\ UNCHANGED out
    /\ UNCHANGED <<companyfacts, cfg, df, prev>>
    /\ UNCHANGED client

\* lines 306-351
BuildFinish ==
    /\ pc = "reconcile"
    /\ out.k = Len(cfg.specs)
    /\ pc' = "built"
    /\ out' = BuildReturn(out)
    /\ UNCHANGED <<companyfacts, cfg, df, prev, raised>>
    /\ UNCHANGED client

\* NormalizeConfig() and FinancialsConfig() with default_mvp_specs()
DefaultCfg ==
    [preferred_units |-> <<"USD", "shares", "pure">>, keep_dimensions |-> FALSE,
     keep_forms |-> NoForms, specs |-> default_mvp_specs, last_n_years |-> 5]

MaxBuildRows == 2

\* a 10-K revenue fact and an operating cash flow fact of FY2022, and the
\* revenue fact with no value, with an end or a fiscal year that does not
\* parse, or of a concept no metric lists
BuildFacts ==
    {BaseFact,
     [BaseFact EXCEPT !.concept = "NetCashProvidedByUsedInOperatingActivities", !.value = 50],
     [BaseFact EXCEPT !.value = NA],
     [BaseFact EXCEPT !.end = Unparsed],
     [BaseFact EXCEPT !.fy = Unparsed],
     [BaseFact EXCEPT !.concept = "CostOfRevenue"]}

\* a row as a table without the columns in gone holds it
Without(r, gone) ==
    [c \in DOMAIN r |->
        IF c \notin gone THEN r[c]
        ELSE IF c \in {"concept", "unit", "fp", "form", "period_type"} THEN NoStr
        ELSE IF c = "has_dimensions" THEN FALSE
        ELSE NA]

\* the tables of up to MaxBuildRows rows that lack up to two columns
BuildTables ==
    {[cols |-> AllColumns \ gone,
      rows |-> [i \in DOMAIN rows |-> Without(rows[i], gone)]] :
        gone \in {g \in SUBSET AllColumns : Cardinality(g) <= 2},
        rows \in SeqUpTo(BuildFacts, MaxBuildRows)}

InitBuild ==
    /\ pc = "pipeline_done"
    /\ companyfacts = <<>>
    /\ cfg = DefaultCfg
    /\ df \in BuildTables
    /\ out = EmptyDF
    /\ prev = EmptyDF
    /\ raised = "none"
    /\ ClientIdle

NextBuild == BuildRaise \/ BuildBegin \/ ReconcileMetric \/ BuildFinish

SpecBuild == InitBuild /\ [][NextBuild]_vars

\* a mandatory column (concept, unit, value, end, form, period_type) is missing
LacksMandatory ==
    \E c \in {"concept", "unit", "value", "end", "form", "period_type"} : c \notin df.cols

-----------------------------------------------------------------------------
(* The report run: normalize_pipeline, then build_annual_financials_table *)

MaxStoreRecords == 2

\* a raw observation as the SEC API gives it (no qtrs key)
BaseRecord ==
    [concept |-> "Revenues", unit |-> "USD", val |-> 10, start |-> 730, end |-> 1094,
     fy |-> 2022, fp |-> "FY", form |-> "10-K", filed |-> 1150, qtrs |-> NA,
     dims |-> FALSE]

\* revenue and operating cash flow records from a 10-K or a 10-Q, with or
\* without a dimensional qualifier; a record in a unit that is not
\* preferred; a record whose value and one whose filing date do not parse
RawRecords ==
    {[BaseRecord EXCEPT !.concept = c, !.form = f, !.dims = d] :
        c \in {"Revenues", "NetCashProvidedByUsedInOperatingActivities"},
        f \in {"10-K", "10-Q"}, d \in BOOLEAN}
    \cup {[BaseRecord EXCEPT !.unit = "EUR"],
          [BaseRecord EXCEPT !.val = Unparsed],
          [BaseRecord EXCEPT !.filed = Unparsed]}

\* company facts without a "facts" key, without the taxonomy's entry, and
\* with up to MaxStoreRecords records for the taxonomy
Stores ==
    {[has_facts |-> FALSE, has_taxonomy |-> FALSE, records |-> <<>>],
     [has_facts |-> TRUE, has_taxonomy |-> FALSE, records |-> <<>>]}
    \cup {[has_facts |-> TRUE, has_taxonomy |-> TRUE, records |-> r] :
            r \in SeqUpTo(RawRecords, MaxStoreRecords)}

Init ==
    /\ pc = "start"
    /\ companyfacts \in Stores
    /\ cfg \in {[DefaultCfg EXCEPT !.keep_forms = kf, !.keep_dimensions = kd] :
                  kf \in {NoForms, {"10-K"}}, kd \in BOOLEAN}
    /\ df = EmptyDF
    /\ out = EmptyDF
    /\ prev = EmptyDF
    /\ raised = "none"
    /\ ClientIdle

PipelineNormalize ==
    /\ pc = "start"
    /\ pc' = "normalized"
    /\ df' = normalize_companyfacts_to_df(companyfacts, cfg)
    /\ UNCHANGED <<companyfacts, cfg, out, prev, raised>>
    /\ UNCHANGED client

PipelineChooseUnit ==
    /\ pc = "normalized"
    /\ pc' = "units_chosen"
    /\ df' = choose_preferred_unit(df, cfg.preferred_units)
    /\ UNCHANGED <<companyfacts, cfg, out, prev, raised>>
    /\ UNCHANGED client

PipelineDedupe ==
    /\ pc = "units_chosen"
    /\ pc' = "pipeline_done"
    /\ df' = dedupe_keep_latest_filed(df)
    /\ UNCHANGED <<companyfacts, cfg, out, prev, raised>>
    /\ UNCHANGED client

Next ==
    \/ PipelineNormalize
    \/ PipelineChooseUnit
    \/ PipelineDedupe
    \/ BuildRaise
    \/ BuildBegin
    \/ ReconcileMetric
    \/ BuildFinish

Spec == Init /\ [][Next]_vars

\* the input has no fact for the taxonomy
ZeroFacts == TaxonomyRecords(companyfacts) = <<>>

\* C5 as claimed: a run on company facts with zero facts for the taxonomy
\* raises no error, and the table it returns has zero rows and a
\* concept-usage mapping with an empty entry for every configured metric.
C5_EmptyStoreNoError ==
    (pc \notin {"start"} /\ ZeroFacts) =>
        /\ raised = "none"
        /\ pc = "built" =>
              /\ out.table.rows = <<>>
              /\ out.has_concept_map
              /\ \A i \in DOMAIN cfg.specs : out.concept_map[cfg.specs[i].name] = ""

\* C6 as claimed: when no record survives, normalize_companyfacts_to_df
\* returns a zero-row table with the columns of a non-empty result.
C6_EmptyHasColumns ==
    (pc = "normalized" /\ df.rows = <<>>) => df.cols = AllColumns

-----------------------------------------------------------------------------
(* build_annual_financials_table on tables that span several fiscal years *)

MaxTableRows == 3

\* the 10-K full-year fact of a concept for fiscal year y
YearFact(concept, y, value) ==
    [BaseFact EXCEPT !.concept = concept, !.fy = y, !.value = value,
                     !.start = (y - 2020) * 365, !.end = (y - 2020) * 365 + 364,
                     !.filed = (y - 2020) * 365 + 420]

\* revenue, operating cash flow and capital expenditure of FY2020..FY2022
TableFacts ==
    {YearFact("Revenues", y, 10 * (y - 2019)) : y \in 2020..2022}
    \cup {YearFact("NetCashProvidedByUsedInOperatingActivities", y, 50) : y \in 2020..2022}
    \cup {YearFact("PaymentsToAcquirePropertyPlantAndEquipment", y, 10) : y \in 2020..2022}

InitTable ==
    /\ pc = "pipeline_done"
    /\ companyfacts = <<>>
    /\ cfg \in {[DefaultCfg EXCEPT !.last_n_years = n] : n \in {1, 5}}
    /\ df \in {FullTable(rows) : rows \in SeqUpTo(TableFacts, MaxTableRows)}
    /\ out = EmptyDF
    /\ prev = EmptyDF
    /\ raised = "none"
    /\ ClientIdle

NextTable == BuildBegin \/ ReconcileMetric \/ BuildFinish

SpecTable == InitTable /\ [][NextTable]_vars

\* the cell of a row of the returned table in a metric's column, missing
\* when the table has no such column
CellOf(row, name) == IF name \in DOMAIN row.value THEN row.value[name] ELSE NA

\* the rows of the returned table whose fiscal year is y
RowsOfYear(y) == {p \in DOMAIN out.table.rows : out.table.rows[p].fy = y}

\* revenue of fiscal year y in the returned table, missing when the table
\* has no row for y
RevenueOf(y) ==
    IF RowsOfYear(y) = {} THEN NA
    ELSE CellOf(out.table.rows[CHOOSE p \in RowsOfYear(y) : TRUE], "revenue")

\* C11 as claimed: in a returned table revenue_yoy of fiscal year t is
\* missing for the earliest fiscal year and when revenue of t-1 is missing
\* (also when the table has no row for t-1), and is otherwise equal to
\* revenue[t] / revenue[t-1] - 1, present when revenue[t] is.
C11_RevenueYoY ==
    pc = "built" =>
        \A p \in DOMAIN out.table.rows :
            LET row == out.table.rows[p]
                earliest == \A q \in DOMAIN out.table.rows : out.table.rows[q].fy >= row.fy
            IN  IF earliest \/ IsNA(RevenueOf(row.fy - 1))
                THEN row.revenue_yoy.na
                ELSE row.revenue_yoy =
                         Quot(Minus(CellOf(row, "revenue"), RevenueOf(row.fy - 1)),
                              RevenueOf(row.fy - 1))

\* C12: in a returned table, fcf of a row is cfo - capex when the row has
\* both, and is missing (so neither zero nor the row's cfo) when the row
\* lacks either or the table lacks either column.
C12_Fcf ==
    pc = "built" =>
        \A p \in DOMAIN out.table.rows :
            LET row == out.table.rows[p]
                cfo == CellOf(row, "cfo")
                capex == CellOf(row, "capex")
            IN  IF ~IsNA(cfo) /\ ~IsNA(capex)
                THEN row.fcf = cfo - capex
                ELSE IsNA(row.fcf) /\ row.fcf # 0 /\ (~IsNA(cfo) => row.fcf # cfo)

\* a returned table with a year of cfo 50 and capex 10, so fcf 40, and a
\* year of cfo 50 whose capex is missing, so no fcf
C12_Witness ==
    /\ pc = "built"
    /\ \E p \in DOMAIN out.table.rows :
          /\ CellOf(out.table.rows[p], "cfo") = 50
          /\ CellOf(out.table.rows[p], "capex") = 10
          /\ out.table.rows[p].fcf = 40
    /\ \E p \in DOMAIN out.table.rows :
          /\ CellOf(out.table.rows[p], "cfo") = 50
          /\ "capex" \in DOMAIN out.table.rows[p].value
          /\ IsNA(CellOf(out.table.rows[p], "capex"))
          /\ IsNA(out.table.rows[p].fcf)

\* the series of the i-th metric, from extract_annual_series run on its own
IsolatedSeries(i) == extract_annual_series(df, cfg.specs[i], cfg.last_n_years)

\* the fiscal years of the isolated series of all metrics
SeriesYears ==
    UNION {{IsolatedSeries(i)[k].fy : k \in DOMAIN IsolatedSeries(i)} : i \in DOMAIN cfg.specs}

\* the value of the isolated series of the i-th metric for fiscal year y,
\* missing when the series has no entry for y
SeriesValue(i, y) ==
    LET hits == {k \in DOMAIN IsolatedSeries(i) : IsolatedSeries(i)[k].fy = y}
    IN  IF hits = {} THEN NA ELSE IsolatedSeries(i)[CHOOSE k \in hits : TRUE].value

\* C13: the rows of the returned table are the union of the fiscal years of
\* the metrics' isolated series, ascending, and the cell of a metric in a
\* row is the value its isolated series has for that year, missing when the
\* series has no entry for it; the metric columns are columns of metrics.
C13_TableIsUnionOfSeries ==
    pc = "built" =>
        /\ {out.table.rows[p].fy : p \in DOMAIN out.table.rows} = SeriesYears
        /\ \A p, q \in DOMAIN out.table.rows :
              p < q => out.table.rows[p].fy < out.table.rows[q].fy
        /\ \A p \in DOMAIN out.table.rows :
              /\ DOMAIN out.table.rows[p].value
                    \subseteq {cfg.specs[i].name : i \in DOMAIN cfg.specs}
              /\ \A i \in DOMAIN cfg.specs :
                    CellOf(out.table.rows[p], cfg.specs[i].name)
                        = SeriesValue(i, out.table.rows[p].fy)

\* a returned table of three fiscal years in which revenue has a value in
\* the first and the last year and none in between, where cfo has one
C13_Witness ==
    /\ pc = "built"
    /\ Len(out.table.rows) = 3
    /\ CellOf(out.table.rows[1], "revenue") = 10
    /\ IsNA(CellOf(out.table.rows[2], "revenue"))
    /\ CellOf(out.table.rows[2], "cfo") = 50
    /\ CellOf(out.table.rows[3], "revenue") = 30

\* the concept candidate selection returns for the i-th metric
ChosenConcept(i) == choose_best_concept(prepare_base(df, cfg.specs[i]), cfg.specs[i]).concept

\* C14 as claimed: every returned table carries a concept-usage mapping
\* with an entry for each configured metric, the concept chosen for it, or
\* the empty string when no candidate of the metric produced a row; also
\* when some or all metrics have no coverage.
C14_ConceptMapComplete ==
    pc = "built" =>
        /\ out.has_concept_map
        /\ DOMAIN out.concept_map = {cfg.specs[i].name : i \in DOMAIN cfg.specs}
        /\ \A i \in DOMAIN cfg.specs :
              out.concept_map[cfg.specs[i].name] =
                  IF IsolatedSeries(i) = <<>> THEN "" ELSE ChosenConcept(i)

-----------------------------------------------------------------------------
(* extract_annual_series: the last years, and candidates that tie *)

\* the fiscal years of the chosen candidate's reconciled series
ChosenYears == {out.chosen.d.rows[i].fy : i \in DOMAIN out.chosen.d.rows}

\* the last_n_years greatest of them, all of them if there are fewer
LatestYears == {y \in ChosenYears : Cardinality({z \in ChosenYears : z > y}) < cfg.last_n_years}

\* C15: the series extract_annual_series returns is strictly ascending in
\* fiscal year (so has one entry per year), has at most last_n_years
\* entries, holds exactly the last_n_years greatest fiscal years of the
\* chosen candidate's reconciled series with that series' end and value,
\* and every entry is tagged with the chosen concept.
C15_LastYears ==
    pc = "extracted" =>
        /\ \A i, j \in DOMAIN out.series : i < j => out.series[i].fy < out.series[j].fy
        /\ Len(out.series) <= cfg.last_n_years
        /\ {out.series[i].fy : i \in DOMAIN out.series} = LatestYears
        /\ \A i \in DOMAIN out.series :
              /\ out.series[i].concept_used = out.chosen.concept
              /\ out.series[i].name = cfg.name
              /\ \E k \in DOMAIN out.chosen.d.rows :
                    /\ out.chosen.d.rows[k].fy = out.series[i].fy
                    /\ out.chosen.d.rows[k].end = out.series[i].fiscal_year_end
                    /\ out.chosen.d.rows[k].value = out.series[i].value

\* the chosen candidate covers FY2020 and FY2023, one year is asked for,
\* and the series is the FY2023 entry alone
C15_Witness ==
    /\ pc = "extracted"
    /\ cfg.last_n_years = 1
    /\ ChosenYears = {2020, 2023}
    /\ Len(out.series) = 1
    /\ out.series[1].fy = 2023

\* the score of a reconciled series
ScoreOf(rows) == <<MaxFy(rows), NumFy(rows), MaxEnd(rows)>>

\* the candidates, by position, that have a series no candidate scores above
TopPositions ==
    {k \in DOMAIN cfg.candidates :
        /\ SeriesOf(cfg.candidates[k]) # <<>>
        /\ \A c \in NonEmptyCandidates :
              ~ScoresAbove(SeriesOf(c), SeriesOf(cfg.candidates[k]))}

\* rows with the rows at positions i and i + 1 exchanged
Swapped(rows, i) ==
    [p \in DOMAIN rows |-> IF p = i THEN rows[i + 1] ELSE IF p = i + 1 THEN rows[i] ELSE rows[p]]

\* C17: when candidates have series, choose_best_concept returns the
\* earliest candidate in the list among those no candidate scores above,
\* so of candidates with identical scores the earlier one; and the concept
\* returned does not depend on the order of the facts in the table.
C17_TieKeepsEarliest ==
    (pc = "extracted" /\ NonEmptyCandidates # {}) =>
        /\ out.chosen.concept = cfg.candidates[CHOOSE k \in TopPositions :
                                                   \A j \in TopPositions : k <= j]
        /\ \A i \in 1..(Len(df.rows) - 1) :
              choose_best_concept(
                  prepare_base([cols |-> df.cols, rows |-> Swapped(df.rows, i)], cfg),
                  cfg).concept = out.chosen.concept

\* both candidates have a series, the two series have the same score, and
\* the first candidate of the list is returned
C17_Witness ==
    /\ pc = "extracted"
    /\ NonEmptyCandidates = Range(cfg.candidates)
    /\ ScoreOf(SeriesOf(cfg.candidates[1])) = ScoreOf(SeriesOf(cfg.candidates[2]))
    /\ out.chosen.concept = cfg.candidates[1]

-----------------------------------------------------------------------------
(* normalize_companyfacts_to_df on its own *)

MaxNormalizeRecords == 3

\* raw observations from a 10-K or a 10-Q, with or without a dimensional
\* qualifier, with a start date, without one, or with one that does not parse
NormalizeRecords ==
    {[BaseRecord EXCEPT !.form = f, !.dims = d, !.start = s] :
        f \in {"10-K", "10-Q"}, d \in BOOLEAN, s \in {730, NA, Unparsed}}

InitNormalize ==
    /\ pc = "start"
    /\ companyfacts \in
          {[has_facts |-> FALSE, has_taxonomy |-> FALSE, records |-> <<>>],
           [has_facts |-> TRUE, has_taxonomy |-> FALSE, records |-> <<>>]}
          \cup {[has_facts |-> TRUE, has_taxonomy |-> TRUE, records |-> r] :
                  r \in SeqUpTo(NormalizeRecords, MaxNormalizeRecords)}
    /\ cfg \in {[DefaultCfg EXCEPT !.keep_forms = kf, !.keep_dimensions = kd] :
                  kf \in {NoForms, {"10-K"}}, kd \in BOOLEAN}
    /\ df = EmptyDF
    /\ out = EmptyDF
    /\ prev = EmptyDF
    /\ raised = "none"
    /\ ClientIdle

NextNormalize == PipelineNormalize

SpecNormalize == InitNormalize /\ [][NextNormalize]_vars

\* the record passes the form allow-list, when one is set, and is not
\* dimensioned unless dimensioned facts are asked for
Passes(item) ==
    /\ cfg.keep_forms # NoForms => item.form \in cfg.keep_forms
    /\ item.dims => cfg.keep_dimensions

\* the positions of the raw records that pass
PassingPositions ==
    {k \in DOMAIN TaxonomyRecords(companyfacts) : Passes(TaxonomyRecords(companyfacts)[k])}

\* the position of the p-th passing record
PassingAt(p) ==
    CHOOSE k \in PassingPositions : Cardinality({j \in PassingPositions : j <= k}) = p

\* C16: normalize_companyfacts_to_df returns one row for each raw record
\* that passes both filters, in order, and none for any other record; the
\* row carries the record's fields and is tagged instant when the record's
\* start date is missing (or does not parse) and duration otherwise; with
\* the default configuration no dimensioned record and every form is kept.
C16_OneRowPerKeptRecord ==
    pc = "normalized" =>
        /\ Len(df.rows) = Cardinality(PassingPositions)
        /\ \A p \in DOMAIN df.rows :
              LET item == TaxonomyRecords(companyfacts)[PassingAt(p)]
              IN  /\ df.rows[p].concept = item.concept
                  /\ df.rows[p].unit = item.unit
                  /\ df.rows[p].form = item.form
                  /\ df.rows[p].fy = item.fy
                  /\ df.rows[p].has_dimensions = item.dims
                  /\ df.rows[p].start = Coerce(item.start)
                  /\ df.rows[p].period_type =
                        (IF IsNA(Coerce(item.start)) THEN "instant" ELSE "duration")
        /\ (cfg.keep_forms = NoForms /\ ~cfg.keep_dimensions) =>
              /\ \A p \in DOMAIN df.rows : ~df.rows[p].has_dimensions
              /\ Len(df.rows) =
                    Cardinality({k \in DOMAIN TaxonomyRecords(companyfacts) :
                                    ~TaxonomyRecords(companyfacts)[k].dims})

\* the default configuration on a dimensioned record, a 10-Q record with no
\* start and a 10-K record with one: two rows, instant and duration
C16_Witness ==
    /\ pc = "normalized"
    /\ cfg.keep_forms = NoForms /\ ~cfg.keep_dimensions
    /\ Len(companyfacts.records) = 3
    /\ companyfacts.records[1].dims
    /\ ~companyfacts.records[2].dims /\ companyfacts.records[2].form = "10-Q"
    /\ IsNA(companyfacts.records[2].start)
    /\ ~companyfacts.records[3].dims /\ companyfacts.records[3].form = "10-K"
    /\ companyfacts.records[3].start = 730
    /\ Len(df.rows) = 2
    /\ df.rows[1].period_type = "instant" /\ df.rows[1].form = "10-Q"
    /\ df.rows[2].period_type = "duration"

-----------------------------------------------------------------------------
(* sec_client.py: SecClient.get_json, one call *)

\* SecClientConfig.max_retries ranges over 0..MaxRetries
MaxRetries == 3

\* the parsed body of a successful response, also the text cached for it
Body == "body"

\* how one request can end: status 200 with a JSON body (and the cache
\* write succeeding or raising), status 200 with a body that is no JSON,
\* status 429, 403 or another error status, or an exception from the GET
Outcomes == {"200", "200_write_fails", "200_bad_json", "429", "403", "500", "exception"}

\* the cache file if it were written before raise_for_status
CacheAfterAnyStatus(outcome, file) ==
    IF outcome \in {"200", "500"} THEN {Body}
    ELSE IF outcome = "200_write_fails" THEN {file, "partial"}
    ELSE {file}

\* what the cache file can hold after an attempt: write_text runs only
\* after resp.json() returned, and may leave a partial file when it raises
CacheAfter(outcome, file) ==
    IF outcome = "200" THEN {Body}
    ELSE IF outcome = "200_write_fails" THEN {file, "partial"}
    ELSE {file}

InitClient ==
    /\ pc = "call"
    /\ companyfacts = <<>>
    /\ cfg \in {[max_retries |-> m, use_cache |-> u] : m \in 0..MaxRetries, u \in BOOLEAN}
    /\ df = EmptyDF
    /\ out = "none"
    /\ prev = EmptyDF
    /\ raised = "none"
    /\ cache_file \in {"absent", "old", "partial"}
    /\ attempt = 0
    /\ requests = 0
    /\ resp = "none"

\* lines 84-85: the cache file exists and is used; a partial file is no JSON
GetJsonCached ==
    /\ pc = "call"
    /\ cfg.use_cache /\ cache_file # "absent"
    /\ resp' = "cache"
    /\ IF cache_file = "partial"
       THEN pc' = "raised" /\ raised' = "JSONDecodeError" /\ UNCHANGED out
       ELSE pc' = "returned" /\ out' = cache_file /\ UNCHANGED raised
    /\ UNCHANGED <<companyfacts, cfg, df, prev, cache_file, attempt, requests>>

\* lines 84-89: no cache hit, the loop is entered
GetJsonBegin ==
    /\ pc = "call"
    /\ ~(cfg.use_cache /\ cache_file # "absent")
    /\ pc' = "loop"
    /\ UNCHANGED <<companyfacts, cfg, df, out, prev, raised, cache_file, attempt, requests, resp>>

\* lines 89-113: one iteration of the loop; only "200" returns, every other
\* outcome (the 403's RuntimeError included, which the except clause
\* catches) goes on to the next iteration
GetJsonAttempt ==
    /\ pc = "loop"
    /\ attempt < cfg.max_retries
    /\ attempt' = attempt + 1
    /\ requests' = requests + 1
    /\ \E outcome \in Outcomes :
          /\ resp' = outcome
          /\ cache_file' \in CacheAfter(outcome, cache_file)
          /\ IF outcome = "200"
             THEN pc' = "returned" /\ out' = Body
             ELSE pc' = "loop" /\ UNCHANGED out
    /\ UNCHANGED <<companyfacts, cfg, df, prev, raised>>

\* line 115: the loop ran out
GetJsonExhausted ==
    /\ pc = "loop"
    /\ attempt >= cfg.max_retries
    /\ pc' = "raised"
    /\ raised' = "RuntimeError"
    /\ UNCHANGED <<companyfacts, cfg, df, out, prev, cache_file, attempt, requests, resp>>

NextClient == GetJsonCached \/ GetJsonBegin \/ GetJsonAttempt \/ GetJsonExhausted

\* the call runs on until it returns or raises: the sleeps are finite and
\* the GET has a timeout
SpecClient == InitClient /\ [][NextClient]_vars /\ WF_vars(NextClient)

\* the call is over
CallOver == pc \in {"returned", "raised"}

\* what holds throughout a call
ClientSafe ==
    /\ requests <= cfg.max_retries
    /\ resp = "cache" => requests = 0
    /\ (pc = "returned" /\ resp # "cache") => (resp = "200" /\ out = Body)
    /\ resp # "cache" => raised \in {"none", "RuntimeError"}
    /\ (resp # "cache" /\ raised = "RuntimeError") =>
          (pc = "raised" /\ attempt = cfg.max_retries /\ resp # "200")

\* what holds of every step of a call
ClientStep ==
    /\ cache_file' # cache_file => resp' \in {"200", "200_write_fails"}
    /\ (pc = "call" /\ cfg.use_cache /\ cache_file # "absent") =>
          (resp' = "cache" /\ requests' = 0 /\ CallOver')

\* C18: a get_json call that does not hit the cache sends at most
\* max_retries requests and comes to an end, returning the parsed body of a
\* successful response or raising RuntimeError after the last attempt; the
\* cache file changes only in an attempt whose response was successful; and
\* a call with use_cache that finds the cache file ends at once without
\* sending a request.
C18_GetJson == []ClientSafe /\ [][ClientStep]_vars /\ <>CallOver

\* a call that was answered 429 or an error twice and 200 the third time:
\* three requests, the body returned and cached
C18_Witness ==
    /\ pc = "returned"
    /\ cfg.max_retries = 3
    /\ requests = 3
    /\ resp = "200"
    /\ out = Body
    /\ cache_file = Body

=============================================================================
